---- MODULE Spec2Model ----
(***************************************************************************)
(* A model of the memo manager of src/Main.py: the event loop of main(),   *)
(* the in-memory list `memos`, the list box `-MEMOLIST-' and the backing   *)
(* file memos.json, for one or two instances of the program running on the *)
(* same backing file.                                                      *)
(*                                                                         *)
(* Text is a tuple of one-character strings.  A Python value held in a     *)
(* memo is tagged: [t |-> "str", v |-> chars], [t |-> "null", v |-> <<>>]  *)
(* (None) or [t |-> "missing", v |-> <<>>] (the key is not in the dict).   *)
(* The file is a sequence of JSON tokens [k |-> kind, v |-> chars].        *)
(***************************************************************************)
EXTENDS Integers, Sequences, FiniteSets, TLC

-----------------------------------------------------------------------------
(* Bounds of the model *)

MaxMemos == 1

MaxClock == 1

-----------------------------------------------------------------------------
(* Characters, strings and Python values *)

\* The characters of the model in code point order.
CharOrder == <<" ", "-", ".", "0", "1", "2", "3", "4", "5", "6", "7", "8", "9",
               "A", "B", "N", "a", "b", "e", "n", "o">>

CharCode(c) == CHOOSE i \in 1..Len(CharOrder) : CharOrder[i] = c

\* str.lower() on one character
LowerChar(c) == IF c = "A" THEN "a" ELSE IF c = "B" THEN "b" ELSE IF c = "N" THEN "n" ELSE c

\* str.lower()
Lower(s) == [i \in 1..Len(s) |-> LowerChar(s[i])]

\* s[:n]
Slice(s, n) == IF Len(s) <= n THEN s ELSE SubSeq(s, 1, n)

\* `sub in s' for strings
Contains(s, sub) ==
    \E k \in 0..(Len(s) - Len(sub)) : \A j \in 1..Len(sub) : s[k + j] = sub[j]

\* s < t for strings: code point by code point, a proper prefix is smaller
RECURSIVE StrLess(_, _)
StrLess(s, t) ==
    IF t = <<>> THEN FALSE
    ELSE IF s = <<>> THEN TRUE
    ELSE IF s[1] # t[1] THEN CharCode(s[1]) < CharCode(t[1])
    ELSE StrLess(Tail(s), Tail(t))

Str(s) == [t |-> "str", v |-> s]

Null == [t |-> "null", v |-> <<>>]

Missing == [t |-> "missing", v |-> <<>>]

\* A memo dict; a key that is not in the dict has the value Missing.
Memo(c, d) == [content |-> c, date |-> d]

-----------------------------------------------------------------------------
(* The backing file and its JSON text *)

Tok(kind) == [k |-> kind, v |-> <<>>]

StrTok(s) == [k |-> "str", v |-> s]

\* The keys of a memo dict, each written as one symbol.
ContentKey == <<"content">>

DateKey == <<"date">>

Scalars == {"str", "null", "num"}

\* A value of a memo as JSON text
DumpVal(x) == IF x.t = "str" THEN StrTok(x.v) ELSE Tok("null")

DumpMember(key, x) == <<StrTok(key), Tok(":"), Tok("ws"), DumpVal(x)>>

\* One dict of the list, indented; a key the dict does not have is not written.
DumpMemo(m) ==
    LET c == IF m.content.t = "missing" THEN <<>> ELSE DumpMember(ContentKey, m.content)
        d == IF m.date.t = "missing" THEN <<>> ELSE DumpMember(DateKey, m.date)
        sep == IF c # <<>> /\ d # <<>> THEN <<Tok(","), Tok("ws")>> ELSE <<>>
    IN  IF c = <<>> /\ d = <<>> THEN <<Tok("{"), Tok("}")>>
        ELSE <<Tok("{"), Tok("ws")>> \o c \o sep \o d \o <<Tok("ws"), Tok("}")>>

RECURSIVE DumpItems(_)
DumpItems(ms) ==
    IF Len(ms) = 1 THEN DumpMemo(ms[1])
    ELSE DumpMemo(ms[1]) \o <<Tok(","), Tok("ws")>> \o DumpItems(Tail(ms))

\* Mutant of JsonDump: the dicts written one after the other, without the list
JsonDumpLines(ms) == IF ms = <<>> THEN <<>> ELSE DumpItems(ms)

\* json.dump(memos, f, ensure_ascii=False, indent=2)
JsonDump(ms) ==
    IF ms = <<>> THEN <<Tok("["), Tok("]")>>
    ELSE <<Tok("["), Tok("ws")>> \o DumpItems(ms) \o <<Tok("ws"), Tok("]")>>

IsWs(tk) == tk.k = "ws"

\* content.strip(): the text without leading and trailing whitespace
RECURSIVE Strip(_)
Strip(text) ==
    IF text = <<>> THEN <<>>
    ELSE IF IsWs(text[1]) THEN Strip(Tail(text))
    ELSE IF IsWs(text[Len(text)]) THEN Strip(SubSeq(text, 1, Len(text) - 1))
    ELSE text

NotWs(tk) == ~IsWs(tk)

ParseFail == [ok |-> FALSE, memo |-> Memo(Missing, Missing), items |-> <<>>, next |-> 0]

FromScalar(tk) == IF tk.k = "str" THEN Str(tk.v) ELSE Null

\* The members of an object from token i on (after "{" or ","), added to m.
\* The objects of the modelled files carry the keys content and date only.
RECURSIVE ParseMembers(_, _, _)
ParseMembers(t, i, m) ==
    IF i + 3 > Len(t) THEN ParseFail
    ELSE IF t[i].k # "str" \/ t[i + 1].k # ":" \/ t[i + 2].k \notin {"str", "null"}
         THEN ParseFail
    ELSE LET x == FromScalar(t[i + 2])
             m2 == IF t[i].v = ContentKey THEN [m EXCEPT !.content = x]
                   ELSE IF t[i].v = DateKey THEN [m EXCEPT !.date = x]
                   ELSE m
         IN  IF t[i + 3].k = "}" THEN [ok |-> TRUE, memo |-> m2, items |-> <<>>, next |-> i + 4]
             ELSE IF t[i + 3].k = "," THEN ParseMembers(t, i + 4, m2)
             ELSE ParseFail

\* An object starting at token i
ParseObject(t, i) ==
    IF i + 1 > Len(t) \/ t[i].k # "{" THEN ParseFail
    ELSE IF t[i + 1].k = "}"
         THEN [ok |-> TRUE, memo |-> Memo(Missing, Missing), items |-> <<>>, next |-> i + 2]
    ELSE ParseMembers(t, i + 1, Memo(Missing, Missing))

\* The elements of an array from token i on (after "[" or ","), appended to acc.
RECURSIVE ParseElems(_, _, _)
ParseElems(t, i, acc) ==
    LET o == ParseObject(t, i)
    IN  IF ~o.ok \/ o.next > Len(t) THEN ParseFail
        ELSE IF t[o.next].k = "]"
             THEN [ok |-> TRUE, memo |-> o.memo, items |-> Append(acc, o.memo), next |-> o.next + 1]
        ELSE IF t[o.next].k = "," THEN ParseElems(t, o.next + 1, Append(acc, o.memo))
        ELSE ParseFail

\* json.loads(content): [ok |-> FALSE] for a JSONDecodeError; otherwise the
\* value, a list of dicts (kind "list") or a bare scalar (kind "other").
JsonLoads(text) ==
    LET t == SelectSeq(text, NotWs)
    IN  IF t = <<>> THEN [ok |-> FALSE, kind |-> "list", items |-> <<>>]
        ELSE IF t[1].k \in Scalars
             THEN [ok |-> Len(t) = 1, kind |-> "other", items |-> <<>>]
        ELSE IF t[1].k # "[" \/ Len(t) < 2 THEN [ok |-> FALSE, kind |-> "list", items |-> <<>>]
        ELSE IF t[2].k = "]" THEN [ok |-> Len(t) = 2, kind |-> "list", items |-> <<>>]
        ELSE LET r == ParseElems(t, 2, <<>>)
             IN  [ok |-> r.ok /\ r.next = Len(t) + 1, kind |-> "list",
                  items |-> IF r.ok /\ r.next = Len(t) + 1 THEN r.items ELSE <<>>]

\* The file system's view of memos.json: whether it exists, whether it can be
\* opened for reading, and its text.
File(e, r, text) == [exists |-> e, readable |-> r, text |-> text]

\* load_memos(): the value returned; every failure ends in the empty list.
load_memos(f) ==
    IF ~f.exists THEN [kind |-> "list", items |-> <<>>]
    ELSE IF ~f.readable THEN [kind |-> "list", items |-> <<>>]
    ELSE IF Strip(f.text) = <<>> THEN [kind |-> "list", items |-> <<>>]
    ELSE LET r == JsonLoads(f.text)
         IN  IF r.ok THEN [kind |-> r.kind, items |-> r.items]
             ELSE [kind |-> "list", items |-> <<>>]

-----------------------------------------------------------------------------
(* The list box labels *)

TruncLen == 30

\* str(x) of a value inside an f-string
Format(x) == IF x.t = "str" THEN x.v ELSE <<"N", "o", "n", "e">>

\* get_memo_list raises on a dict without 'date' or 'content' (KeyError) and on a
\* content that cannot be sliced (TypeError).
Renders(ms) ==
    \A i \in 1..Len(ms) : ms[i].date.t # "missing" /\ ms[i].content.t = "str"

\* Mutant of Label: the marker only after a content that was cut
LabelMarkerWhenCut(m) ==
    Format(m.date) \o <<" ", "-", " ">> \o Slice(m.content.v, TruncLen)
        \o (IF Len(m.content.v) > TruncLen THEN <<".", ".", ".">> ELSE <<>>)

\* f"{memo['date']} - {memo['content'][:30]}..."
Label(m) ==
    Format(m.date) \o <<" ", "-", " ">> \o Slice(m.content.v, TruncLen) \o <<".", ".", ".">>

\* get_memo_list(memos)
get_memo_list(ms) == [i \in 1..Len(ms) |-> Label(ms[i])]

-----------------------------------------------------------------------------
(* The clock *)

Digits == <<"0", "1", "2", "3", "4", "5", "6", "7", "8", "9">>

\* datetime.now().strftime("%Y-%m-%d %H:%M:%S"): fixed width, zero padded.  The
\* clock of the model stays within one minute, so the fields before the seconds
\* are the same in every date and only the seconds field is kept.
strftime(t) == <<Digits[(t \div 10) + 1], Digits[(t % 10) + 1]>>

-----------------------------------------------------------------------------
(* The operations on the list *)

\* add_memo(memos, content)
add_memo(ms, c, t) == Append(ms, Memo(Str(c), Str(strftime(t))))

\* Mutant of edit_memo: the date of the record is left as it was
EditKeepsDate(m, saved, c, t) ==
    IF saved THEN Memo(Str(c), m.date) ELSE m

\* edit_memo(memo): the dialog ends with the save button and the text c, or not
edit_memo(m, saved, c, t) ==
    IF saved THEN Memo(Str(c), Str(strftime(t))) ELSE m

\* Mutant of Matches: the comparison without .lower()
MatchesExactCase(m, term) == Contains(m.content.v, term)

\* [memo for memo in memos if search_term.lower() in memo['content'].lower()]
Matches(m, term) == Contains(Lower(m.content.v), Lower(term))

RECURSIVE Matched(_, _)
Matched(ms, term) ==
    IF ms = <<>> THEN <<>>
    ELSE IF Matches(ms[1], term) THEN <<ms[1]>> \o Matched(Tail(ms), term)
    ELSE Matched(Tail(ms), term)

\* [memo for i, memo in enumerate(memos) if i not in selected_indices]
RECURSIVE Kept(_, _, _)
Kept(ms, sel, i) ==
    IF ms = <<>> THEN <<>>
    ELSE IF i \notin sel THEN <<ms[1]>> \o Kept(Tail(ms), sel, i + 1)
    ELSE Kept(Tail(ms), sel, i + 1)

\* Mutant of DeleteIndices: positions counted from 1
DeleteIndicesFromOne(ms, sel) == Kept(ms, sel, 1)

DeleteIndices(ms, sel) == Kept(ms, sel, 0)

\* x['date'] < y['date'] raises TypeError unless both are strings
Comparable(ms) == Len(ms) < 2 \/ \A i \in 1..Len(ms) : ms[i].date.t = "str"

\* Mutant of InsertDesc: m goes before the elements of its own date
RECURSIVE InsertDescBeforeEqual(_, _)
InsertDescBeforeEqual(sorted, m) ==
    IF sorted = <<>> THEN <<m>>
    ELSE IF ~StrLess(m.date.v, sorted[1].date.v) THEN <<m>> \o sorted
    ELSE <<sorted[1]>> \o InsertDescBeforeEqual(Tail(sorted), m)

\* The place of m in a list sorted by date, newest first: after every element
\* whose date is not older than m's.
RECURSIVE InsertDesc(_, _)
InsertDesc(sorted, m) ==
    IF sorted = <<>> THEN <<m>>
    ELSE IF StrLess(sorted[1].date.v, m.date.v) THEN <<m>> \o sorted
    ELSE <<sorted[1]>> \o InsertDesc(Tail(sorted), m)

RECURSIVE SortFrom(_, _)
SortFrom(sorted, rest) ==
    IF rest = <<>> THEN sorted
    ELSE SortFrom(InsertDesc(sorted, rest[1]), Tail(rest))

\* memos.sort(key=lambda x: x['date'], reverse=True)
SortedDesc(ms) == SortFrom(<<>>, ms)

\* Mutant of Written: the file opened with 'a' instead of 'w'
WrittenAppending(f, ms, out) ==
    IF out = "ok" THEN File(TRUE, ~f.exists \/ f.readable, f.text \o JsonDump(ms))
    ELSE f

\* save_memos(memos): the file after the call.  The file system accepts the
\* write ("ok"), refuses to open the file ("denied") or fails the write after
\* open(..., 'w') has emptied the file ("full").
Written(f, ms, out) ==
    IF out = "ok" THEN File(TRUE, ~f.exists \/ f.readable, JsonDump(ms))
    ELSE IF out = "full" THEN File(TRUE, ~f.exists \/ f.readable, <<>>)
    ELSE f

-----------------------------------------------------------------------------
(* Inputs *)

Procs == {1, 2}

\* What the user types into -MEMO- or into the edit dialog
Contents == {<<"a", "b">>, <<"B">>}

\* What the user leaves in the edit dialog
EditContents == {<<"B">>, <<>>}

\* What the user types into -SEARCH-
Terms == {<<>>, <<"B">>, <<"a", "B">>}

SaveOutcomes == {"ok", "denied", "full"}

MemoA == Memo(Str(<<"a">>), Str(<<"0", "0">>))

MemoB == Memo(Str(<<"b">>), Str(<<"0", "1">>))

\* A text of 31 characters, one more than a label keeps
LongContent == [i \in 1..(TruncLen + 1) |-> IF i = 1 THEN "a" ELSE IF i <= TruncLen THEN "b" ELSE "B"]

MemoLong == Memo(Str(LongContent), Str(<<"0", "0">>))

\* memos.json when the program starts
InitialFiles ==
    { File(FALSE, TRUE, <<>>),
      File(TRUE, TRUE, <<>>),
      File(TRUE, TRUE, <<Tok("ws"), Tok("ws")>>),
      File(TRUE, TRUE, <<Tok("{"), Tok("bad")>>),
      File(TRUE, TRUE, <<Tok("["), Tok("{"), Tok("}"), Tok("]"), Tok("]")>>),
      File(TRUE, FALSE, JsonDump(<<MemoA>>)),
      File(TRUE, TRUE, <<Tok("num")>>),
      File(TRUE, TRUE, JsonDump(<<Memo(Str(<<"a">>), Missing)>>)),
      File(TRUE, TRUE, JsonDump(<<Memo(Null, Str(<<"0", "0">>))>>)),
      File(TRUE, TRUE, JsonDump(<<Memo(Str(<<"a">>), Null), MemoB>>)),
      File(TRUE, TRUE, JsonDump(<<MemoLong>>)),
      File(TRUE, TRUE, JsonDump(<<MemoA, MemoB>>)) }

-----------------------------------------------------------------------------
(* State *)

VARIABLES
    pc,        \* per instance: "off", "start", "loop", "done" (main returned) or
               \* "crashed" (an exception left main)
    memos,     \* per instance: the list `memos' of main
    display,   \* per instance: the labels the list box -MEMOLIST- shows
    file,      \* memos.json
    now,       \* the clock, in seconds
    last,      \* the step taken last: the intent, its inputs and the list before it
    sortNote   \* the last reordering by a sort: the list before and after it, and
               \* what happened to the file since

vars == <<pc, memos, display, file, now, last, sortNote>>

Step(op, p, text, sel, yes, out, pre) ==
    [op |-> op, who |-> p, text |-> text, sel |-> sel, yes |-> yes, out |-> out, pre |-> pre]

NoNote == [stage |-> "none", who |-> 0, before |-> <<>>, after |-> <<>>, wrote |-> "no"]

\* A note that the start of the instance has already looked at is dropped.
Settle(n) == IF n.stage = "checked" THEN NoNote ELSE n

\* The note after a save attempt with outcome out
NoteSave(n, out) == IF n.stage = "pending" /\ out # "denied" THEN [n EXCEPT !.wrote = out] ELSE n

\* pc after save_memos: its exception is caught nowhere in main
AfterSave(out, next) == IF out = "ok" THEN next ELSE "crashed"

\* get_indexes(): the selected positions of the list box, from 0.  The list box
\* is created without a select mode, so that at most one entry is selected.
Selections(p) == {{}} \cup {{i} : i \in 0..(Len(display[p]) - 1)}

Min(S) == CHOOSE i \in S : \A j \in S : i <= j

-----------------------------------------------------------------------------
(* Actions *)

\* main, lines 104-105: load_memos() and create_window(memos)
Startup(p) ==
    /\ pc[p] = "start"
    /\ LET r == load_memos(file)
           up == r.kind = "list" /\ Renders(r.items)
       IN  /\ pc' = [pc EXCEPT ![p] = IF up THEN "loop" ELSE "crashed"]
           /\ memos' = [memos EXCEPT ![p] = r.items]
           /\ display' = [display EXCEPT ![p] = IF up THEN get_memo_list(r.items) ELSE <<>>]
    /\ last' = Step("Startup", p, <<>>, {}, FALSE, "none", <<>>)
    /\ sortNote' = IF sortNote.stage = "pending" /\ sortNote.who = p
                   THEN [sortNote EXCEPT !.stage = "checked"] ELSE sortNote
    /\ UNCHANGED <<file, now>>

\* Mutant of Add: without the test `if memo:'
AddAcceptsEmpty(p, c, out) ==
    /\ pc[p] = "loop"
    /\ Len(memos[p]) < MaxMemos
    /\ LET ms == add_memo(memos[p], c, now)
       IN  /\ memos' = [memos EXCEPT ![p] = ms]
           /\ display' = [display EXCEPT ![p] = get_memo_list(ms)]
           /\ file' = Written(file, ms, out)
           /\ pc' = [pc EXCEPT ![p] = AfterSave(out, "loop")]
           /\ last' = Step("Add", p, c, {}, TRUE, out, memos[p])
           /\ sortNote' = NoNote
    /\ UNCHANGED now

\* Mutant of Add: the list is saved before the new memo is appended
AddSavesOldList(p, c, out) ==
    /\ pc[p] = "loop"
    /\ c # <<>> => Len(memos[p]) < MaxMemos
    /\ IF c # <<>>
       THEN LET ms == add_memo(memos[p], c, now)
            IN  /\ memos' = [memos EXCEPT ![p] = ms]
                /\ display' = [display EXCEPT ![p] = get_memo_list(ms)]
                /\ file' = Written(file, memos[p], out)
                /\ pc' = [pc EXCEPT ![p] = AfterSave(out, "loop")]
                /\ last' = Step("Add", p, c, {}, TRUE, out, memos[p])
                /\ sortNote' = NoNote
       ELSE /\ out = "ok"
            /\ last' = Step("Add", p, c, {}, FALSE, "none", memos[p])
            /\ sortNote' = Settle(sortNote)
            /\ UNCHANGED <<pc, memos, display, file>>
    /\ UNCHANGED now

\* event '追加'
Add(p, c, out) ==
    /\ pc[p] = "loop"
    /\ c # <<>> => Len(memos[p]) < MaxMemos
    /\ IF c # <<>>
       THEN LET ms == add_memo(memos[p], c, now)
            IN  /\ memos' = [memos EXCEPT ![p] = ms]
                /\ display' = [display EXCEPT ![p] = get_memo_list(ms)]
                /\ file' = Written(file, ms, out)
                /\ pc' = [pc EXCEPT ![p] = AfterSave(out, "loop")]
                /\ last' = Step("Add", p, c, {}, TRUE, out, memos[p])
                /\ sortNote' = NoNote
       ELSE /\ out = "ok"
            /\ last' = Step("Add", p, c, {}, FALSE, "none", memos[p])
            /\ sortNote' = Settle(sortNote)
            /\ UNCHANGED <<pc, memos, display, file>>
    /\ UNCHANGED now

\* event '検索'
Search(p, term) ==
    /\ pc[p] = "loop"
    /\ display' = [display EXCEPT ![p] =
                      IF term # <<>> THEN get_memo_list(Matched(memos[p], term))
                      ELSE get_memo_list(memos[p])]
    /\ last' = Step("Search", p, term, {}, FALSE, "none", memos[p])
    /\ sortNote' = Settle(sortNote)
    /\ UNCHANGED <<pc, memos, file, now>>

\* Mutant of Edit: the list box and the file are touched only after a dialog
\* that was saved
EditSavesWhenSaved(p, sel, saved, c, out) ==
    /\ pc[p] = "loop"
    /\ IF sel # {} /\ saved
       THEN LET index == Min(sel)
                ms == [memos[p] EXCEPT ![index + 1] = edit_memo(memos[p][index + 1], saved, c, now)]
            IN  /\ memos' = [memos EXCEPT ![p] = ms]
                /\ display' = [display EXCEPT ![p] = get_memo_list(ms)]
                /\ file' = Written(file, ms, out)
                /\ pc' = [pc EXCEPT ![p] = AfterSave(out, "loop")]
                /\ last' = Step("Edit", p, c, sel, saved, out, memos[p])
                /\ sortNote' = NoNote
       ELSE /\ last' = Step("Edit", p, <<>>, sel, FALSE, out, memos[p])
            /\ sortNote' = Settle(sortNote)
            /\ UNCHANGED <<pc, memos, display, file>>
    /\ UNCHANGED now

\* event '編集'; saved and c are what the edit dialog returns
Edit(p, sel, saved, c, out) ==
    /\ pc[p] = "loop"
    /\ IF sel # {}
       THEN LET index == Min(sel)
                ms == [memos[p] EXCEPT ![index + 1] = edit_memo(memos[p][index + 1], saved, c, now)]
            IN  /\ memos' = [memos EXCEPT ![p] = ms]
                /\ display' = [display EXCEPT ![p] = get_memo_list(ms)]
                /\ file' = Written(file, ms, out)
                /\ pc' = [pc EXCEPT ![p] = AfterSave(out, "loop")]
                /\ last' = Step("Edit", p, IF saved THEN c ELSE <<>>, sel, saved, out, memos[p])
                /\ sortNote' = NoNote
       ELSE /\ out = "ok" /\ ~saved
            /\ last' = Step("Edit", p, <<>>, sel, FALSE, "none", memos[p])
            /\ sortNote' = Settle(sortNote)
            /\ UNCHANGED <<pc, memos, display, file>>
    /\ UNCHANGED now

\* Mutant of Delete: the list box is not filled again after the deletion
DeleteKeepsListBox(p, sel, yes, out) ==
    /\ pc[p] = "loop"
    /\ IF sel # {} /\ yes
       THEN LET ms == DeleteIndices(memos[p], sel)
            IN  /\ memos' = [memos EXCEPT ![p] = ms]
                /\ file' = Written(file, ms, out)
                /\ pc' = [pc EXCEPT ![p] = AfterSave(out, "loop")]
                /\ last' = Step("Delete", p, <<>>, sel, TRUE, out, memos[p])
                /\ sortNote' = NoNote
                /\ UNCHANGED display
       ELSE /\ out = "ok"
            /\ sel = {} => ~yes
            /\ last' = Step("Delete", p, <<>>, sel, FALSE, "none", memos[p])
            /\ sortNote' = Settle(sortNote)
            /\ UNCHANGED <<pc, memos, display, file>>
    /\ UNCHANGED now

\* event '削除'; yes is the answer to the confirmation popup
Delete(p, sel, yes, out) ==
    /\ pc[p] = "loop"
    /\ IF sel # {} /\ yes
       THEN LET ms == DeleteIndices(memos[p], sel)
            IN  /\ memos' = [memos EXCEPT ![p] = ms]
                /\ display' = [display EXCEPT ![p] = get_memo_list(ms)]
                /\ file' = Written(file, ms, out)
                /\ pc' = [pc EXCEPT ![p] = AfterSave(out, "loop")]
                /\ last' = Step("Delete", p, <<>>, sel, TRUE, out, memos[p])
                /\ sortNote' = NoNote
       ELSE /\ out = "ok"
            /\ sel = {} => ~yes
            /\ last' = Step("Delete", p, <<>>, sel, FALSE, "none", memos[p])
            /\ sortNote' = Settle(sortNote)
            /\ UNCHANGED <<pc, memos, display, file>>
    /\ UNCHANGED now

\* Mutant of SortDescending: the sorted list is saved
SortDescendingSaving(p) ==
    /\ pc[p] = "loop"
    /\ Comparable(memos[p])
    /\ LET ms == SortedDesc(memos[p])
       IN  /\ memos' = [memos EXCEPT ![p] = ms]
           /\ display' = [display EXCEPT ![p] = get_memo_list(ms)]
           /\ file' = Written(file, ms, "ok")
           /\ sortNote' = IF ms # memos[p]
                          THEN [stage |-> "pending", who |-> p, before |-> memos[p],
                                after |-> ms, wrote |-> "ok"]
                          ELSE Settle(sortNote)
    /\ last' = Step("Sort", p, <<>>, {}, FALSE, "none", memos[p])
    /\ UNCHANGED <<pc, now>>

\* event '並べ替え'
SortDescending(p) ==
    /\ pc[p] = "loop"
    /\ IF Comparable(memos[p])
       THEN LET ms == SortedDesc(memos[p])
            IN  /\ memos' = [memos EXCEPT ![p] = ms]
                /\ display' = [display EXCEPT ![p] = get_memo_list(ms)]
                /\ sortNote' = IF ms # memos[p]
                               THEN [stage |-> "pending", who |-> p, before |-> memos[p],
                                     after |-> ms, wrote |-> "no"]
                               ELSE Settle(sortNote)
                /\ UNCHANGED pc
       ELSE /\ pc' = [pc EXCEPT ![p] = "crashed"]
            /\ sortNote' = Settle(sortNote)
            /\ UNCHANGED <<memos, display>>
    /\ last' = Step("Sort", p, <<>>, {}, FALSE, "none", memos[p])
    /\ UNCHANGED <<file, now>>

\* Mutant of Quit: the loop is left without the save
QuitWithoutSave(p, out) ==
    /\ pc[p] = "loop"
    /\ pc' = [pc EXCEPT ![p] = AfterSave(out, "done")]
    /\ last' = Step("Quit", p, <<>>, {}, FALSE, out, memos[p])
    /\ sortNote' = NoteSave(Settle(sortNote), out)
    /\ UNCHANGED <<memos, display, file, now>>

\* event '終了' or the window closed
Quit(p, out) ==
    /\ pc[p] = "loop"
    /\ file' = Written(file, memos[p], out)
    /\ pc' = [pc EXCEPT ![p] = AfterSave(out, "done")]
    /\ last' = Step("Quit", p, <<>>, {}, FALSE, out, memos[p])
    /\ sortNote' = NoteSave(Settle(sortNote), out)
    /\ UNCHANGED <<memos, display, now>>

\* A second passes.
Tick ==
    /\ now < MaxClock
    /\ now' = now + 1
    /\ last' = Step("Tick", 0, <<>>, {}, FALSE, "none", <<>>)
    /\ UNCHANGED <<pc, memos, display, file, sortNote>>

\* The user starts the program again after it has terminated.
Restart(p) ==
    /\ pc[p] \in {"done", "crashed"}
    /\ pc' = [pc EXCEPT ![p] = "start"]
    /\ memos' = [memos EXCEPT ![p] = <<>>]
    /\ display' = [display EXCEPT ![p] = <<>>]
    /\ last' = Step("Restart", p, <<>>, {}, FALSE, "none", <<>>)
    /\ UNCHANGED <<file, now, sortNote>>

-----------------------------------------------------------------------------
(* Specifications *)

\* One instance of the program
Init ==
    /\ pc = [p \in Procs |-> IF p = 1 THEN "start" ELSE "off"]
    /\ memos = [p \in Procs |-> <<>>]
    /\ display = [p \in Procs |-> <<>>]
    /\ file \in InitialFiles
    /\ now = 0
    /\ last = Step("Init", 0, <<>>, {}, FALSE, "none", <<>>)
    /\ sortNote = NoNote

Next ==
    \/ \E p \in Procs : Startup(p)
    \/ \E p \in Procs, c \in Contents, out \in SaveOutcomes : Add(p, c, out)
    \/ \E p \in Procs : Add(p, <<>>, "ok")
    \/ \E p \in Procs, term \in Terms : Search(p, term)
    \/ \E p \in Procs : \E sel \in Selections(p), out \in SaveOutcomes :
          \/ \E c \in EditContents : Edit(p, sel, TRUE, c, out)
          \/ Edit(p, sel, FALSE, <<>>, out)
    \/ \E p \in Procs : \E sel \in Selections(p), yes \in BOOLEAN, out \in SaveOutcomes :
          Delete(p, sel, yes, out)
    \/ \E p \in Procs : SortDescending(p)
    \/ \E p \in Procs, out \in SaveOutcomes : Quit(p, out)
    \/ Tick
    \/ \E p \in Procs : Restart(p)

Spec == Init /\ [][Next]_vars

\* Two instances of the program started on the same backing file.  Each user
\* types one text of their own, within one second of the clock, and no instance
\* is started again.
TwoContent(p) == IF p = 1 THEN <<"a", "b">> ELSE <<"B">>

TwoTerms == {<<>>, <<"B">>}

InitTwo ==
    /\ pc = [p \in Procs |-> "start"]
    /\ memos = [p \in Procs |-> <<>>]
    /\ display = [p \in Procs |-> <<>>]
    /\ file \in {File(FALSE, TRUE, <<>>), File(TRUE, TRUE, JsonDump(<<MemoB>>))}
    /\ now = 0
    /\ last = Step("Init", 0, <<>>, {}, FALSE, "none", <<>>)
    /\ sortNote = NoNote

NextTwo ==
    \/ \E p \in Procs : Startup(p)
    \/ \E p \in Procs, out \in SaveOutcomes : Add(p, TwoContent(p), out)
    \/ \E p \in Procs : Add(p, <<>>, "ok")
    \/ \E p \in Procs, term \in TwoTerms : Search(p, term)
    \/ \E p \in Procs : \E sel \in Selections(p), out \in SaveOutcomes :
          \/ Edit(p, sel, TRUE, TwoContent(p), out)
          \/ Edit(p, sel, FALSE, <<>>, out)
    \/ \E p \in Procs : \E sel \in Selections(p), yes \in BOOLEAN, out \in SaveOutcomes :
          Delete(p, sel, yes, out)
    \/ \E p \in Procs : SortDescending(p)
    \/ \E p \in Procs, out \in SaveOutcomes : Quit(p, out)

SpecTwo == InitTwo /\ [][NextTwo]_vars

-----------------------------------------------------------------------------
(* Properties *)

\* The records of ms at the positions of K (counted from 0), in their order
Pick(ms, K) ==
    [k \in 1..Cardinality(K) |->
        ms[1 + (CHOOSE i \in K : Cardinality({j \in K : j < i}) = k - 1)]]

Positions(ms) == 0..(Len(ms) - 1)

\* The file holds exactly the list ms
FileHolds(ms) ==
    /\ file.exists
    /\ LET r == JsonLoads(file.text)
       IN  r.ok /\ r.kind = "list" /\ r.items = ms

\* C1: whenever an edit or a delete takes the selected positions from the list
\* box, each selected position of the list box shows the record at the same
\* position of the in-memory list.
C1_SelectionShowsRecord ==
    [][\A p \in Procs :
          (last'.who = p /\ last'.op \in {"Edit", "Delete"}) =>
              \A i \in last'.sel :
                 /\ i < Len(memos[p])
                 /\ display[p][i + 1] = Label(memos[p][i + 1])]_vars

\* C2: after an add with a text, an edit or a confirmed delete whose save
\* succeeded, the file holds the in-memory list, record for record.
C2_SavedFileIsCollection ==
    \A p \in Procs :
       (last.who = p /\ last.op \in {"Add", "Edit", "Delete"} /\ last.out = "ok") =>
           FileHolds(memos[p])

C2_Witness ==
    /\ last.op = "Edit" /\ last.yes /\ last.out = "ok"
    /\ Len(memos[last.who]) = 2
    /\ memos[last.who] # last.pre
    /\ FileHolds(memos[last.who])

\* C3: a save that fails during an add, an edit, a delete or a quit does not
\* end the process abnormally: the loop goes on or main returns.
C3_SaveFailureIsSurvived ==
    \A p \in Procs :
       (last.who = p /\ last.op \in {"Add", "Edit", "Delete", "Quit"}
           /\ last.out \in {"denied", "full"}) =>
           /\ pc[p] \in {"loop", "done"}
           /\ last.op = "Add" => Len(memos[p]) = Len(last.pre) + 1

\* C4: load_memos returns the empty list for a file that is absent, blank or
\* not parseable (or not readable) and the stored list otherwise, and the start
\* of the program reaches the event loop.
C4_StartupReachesLoop ==
    \A p \in Procs :
       (last.who = p /\ last.op = "Startup") =>
           /\ pc[p] = "loop"
           /\ memos[p] = IF ~file.exists \/ ~file.readable \/ Strip(file.text) = <<>>
                            \/ ~JsonLoads(file.text).ok
                         THEN <<>> ELSE JsonLoads(file.text).items

\* C5: a confirmed delete with the index set S leaves exactly the records whose
\* position is not in S, in their order; positions of S outside the list remove
\* nothing and raise nothing; an empty S or a declined confirmation leaves the
\* list as it was.
C5_DeleteKeepsOthers ==
    \A p \in Procs :
       /\ (last.who = p /\ last.op = "Delete") =>
             IF last.yes
             THEN memos[p] = Pick(last.pre, Positions(last.pre) \ last.sel)
             ELSE memos[p] = last.pre
       /\ \A S \in SUBSET (0..(Len(memos[p]) + 1)) :
             /\ DeleteIndices(memos[p], S) = Pick(memos[p], Positions(memos[p]) \ S)
             /\ S \cap Positions(memos[p]) = {} => DeleteIndices(memos[p], S) = memos[p]

C5_Witness ==
    /\ last.op = "Delete" /\ last.yes /\ last.sel = {0}
    /\ Len(last.pre) = 2
    /\ memos[last.who] = <<last.pre[2]>>

\* content contains term, ignoring case
TermInContent(m, term) ==
    \E k \in 0..(Len(m.content.v) - Len(term)) :
       \A j \in 1..Len(term) : LowerChar(m.content.v[k + j]) = LowerChar(term[j])

\* C6: a search changes neither the in-memory list nor the file; with a term it
\* shows exactly the records whose content contains the term ignoring case, in
\* their order, and with an empty term the whole list.
C6_SearchShowsMatches ==
    [][\A p \in Procs :
          (last'.who = p /\ last'.op = "Search") =>
              /\ memos' = memos
              /\ file' = file
              /\ display'[p] =
                    IF last'.text = <<>> THEN get_memo_list(memos[p])
                    ELSE get_memo_list(Pick(memos[p],
                            {i \in Positions(memos[p]) :
                                TermInContent(memos[p][i + 1], last'.text)}))]_vars

C6_Witness ==
    /\ last.op = "Search" /\ last.text = <<"B">>
    /\ Len(memos[last.who]) = 2
    /\ Len(display[last.who]) = 1
    /\ display[last.who][1] = Label(memos[last.who][2])

\* C7: a sort yields a permutation of the list with the dates not increasing,
\* records of equal date in their earlier order, and sorting again changes
\* nothing.  (A sort returns unless it compares a date that is not a string.)
C7_SortStableDescending ==
    \A p \in Procs :
       (last.who = p /\ last.op = "Sort" /\ pc[p] = "loop") =>
           LET n == Len(last.pre)
               r == memos[p]
           IN  /\ Len(r) = n
               /\ \A i, j \in 1..n : i < j => ~StrLess(r[i].date.v, r[j].date.v)
               /\ \E f \in [1..n -> 1..n] :
                     /\ \A i, j \in 1..n : i # j => f[i] # f[j]
                     /\ \A i \in 1..n : r[i] = last.pre[f[i]]
                     /\ \A i, j \in 1..n :
                           (i < j /\ r[i].date = r[j].date) => f[i] < f[j]
               /\ SortedDesc(r) = r

C7_Witness ==
    /\ last.op = "Sort" /\ pc[last.who] = "loop"
    /\ Len(last.pre) = 2
    /\ last.pre[1].date = last.pre[2].date
    /\ last.pre[1] # last.pre[2]
    /\ memos[last.who] = last.pre

\* C8: a sort leaves the file as it is.
C8_SortWritesNothing ==
    [][(last'.op = "Sort") => file' = file]_vars

C8_Witness ==
    /\ last.op = "Sort"
    /\ memos[last.who] # last.pre
    /\ FileHolds(last.pre)

\* C9 as stated: once a sort has changed the order, the next start of the
\* program loads the list in its order before the sort (here for a file that
\* can be read and runs in which no write of the file failed half way).
C9_RestartLosesSort ==
    \A p \in Procs :
       (last.who = p /\ last.op = "Startup" /\ pc[p] = "loop"
           /\ sortNote.stage = "checked" /\ sortNote.wrote # "full"
           /\ file.readable) =>
           memos[p] = sortNote.before

\* C9 as amended: the next start loads the sorted order when a save succeeded
\* between the sort and the termination, and the order before the sort only
\* when no save reached the file (the file being one that can be read).
C9_RestartKeepsSavedSort ==
    \A p \in Procs :
       (last.who = p /\ last.op = "Startup" /\ sortNote.stage = "checked"
           /\ file.readable) =>
           /\ sortNote.wrote = "ok" => pc[p] = "loop" /\ memos[p] = sortNote.after
           /\ sortNote.wrote = "no" => pc[p] = "loop" /\ memos[p] = sortNote.before

C9_Witness ==
    /\ last.op = "Startup" /\ pc[last.who] = "loop"
    /\ sortNote.stage = "checked" /\ sortNote.wrote = "ok"
    /\ sortNote.after # sortNote.before
    /\ memos[last.who] = sortNote.after

\* C10: with two instances on one file, a save by an instance makes the file
\* hold that instance's list and nothing of the other's, without an error on
\* either side.
C10_LastWriterWins ==
    \A p \in Procs :
       (last.who = p /\ last.out = "ok") =>
           /\ FileHolds(memos[p])
           /\ pc[p] \in {"loop", "done"}

C10_Witness ==
    /\ last.who = 1 /\ last.op = "Add" /\ last.out = "ok"
    /\ pc[1] = "loop" /\ pc[2] = "loop"
    /\ \E i \in 1..Len(memos[2]) :
          /\ memos[2][i].content = Str(TwoContent(2))
          /\ \A j \in 1..Len(memos[1]) : memos[1][j] # memos[2][i]
    /\ FileHolds(memos[1])

EditedAt == Min(last.sel) + 1

\* A saved edit replaced the record at EditedAt by the text and the current
\* time and left every other record, and the order, as they were.
EditReplacedOne(p) ==
    /\ Len(memos[p]) = Len(last.pre)
    /\ memos[p][EditedAt] = Memo(Str(last.text), Str(strftime(now)))
    /\ \A j \in 1..Len(last.pre) : j # EditedAt => memos[p][j] = last.pre[j]

\* C13 as stated: a saved edit sets the content to the text and the date to the
\* current time, which is not earlier than the date the record had; the other
\* records and the order are unchanged.
C13_EditDateNotEarlier ==
    \A p \in Procs :
       (last.who = p /\ last.op = "Edit" /\ last.sel # {} /\ last.yes) =>
           /\ EditReplacedOne(p)
           /\ last.pre[EditedAt].date.t = "str" =>
                 ~StrLess(memos[p][EditedAt].date.v, last.pre[EditedAt].date.v)

\* C13 as amended: a saved edit sets the content to the text and the date to the
\* current time, and leaves the other records and the order unchanged; the new
\* date is not earlier than the old one when the old one is not later than the
\* clock.
C13_EditSetsContentAndNow ==
    \A p \in Procs :
       (last.who = p /\ last.op = "Edit" /\ last.sel # {} /\ last.yes) =>
           /\ EditReplacedOne(p)
           /\ (/\ last.pre[EditedAt].date.t = "str"
               /\ ~StrLess(strftime(now), last.pre[EditedAt].date.v)) =>
                 ~StrLess(memos[p][EditedAt].date.v, last.pre[EditedAt].date.v)

C13_Witness ==
    /\ last.op = "Edit" /\ last.sel = {1} /\ last.yes /\ last.text = <<"B">>
    /\ now = 1
    /\ last.pre = <<MemoA, MemoB>>
    /\ memos[last.who] = <<MemoA, Memo(Str(<<"B">>), Str(<<"0", "1">>))>>

\* C14: a quit writes the list of the instance to the file and leaves the loop;
\* after a save that succeeded the program has terminated and the file holds
\* the list as it is in memory, in the order a sort gave it.  (A save that
\* fails leaves the loop by its exception.)
C14_QuitSavesThenEnds ==
    \A p \in Procs :
       (last.who = p /\ last.op = "Quit") =>
           /\ memos[p] = last.pre
           /\ pc[p] = IF last.out = "ok" THEN "done" ELSE "crashed"
           /\ last.out = "ok" => FileHolds(memos[p])

\* A quit after a sort that reordered the two records of the file
C14_Witness ==
    /\ last.op = "Quit" /\ last.out = "ok"
    /\ pc[last.who] = "done"
    /\ memos[last.who] = <<MemoB, MemoA>>
    /\ FileHolds(<<MemoB, MemoA>>)

\* C15: every record of the list of a running instance has a content and a
\* date, neither of them null.
C15_RecordsHaveContentAndDate ==
    \A p \in Procs :
       pc[p] = "loop" =>
           \A i \in 1..Len(memos[p]) :
              memos[p][i].content.t = "str" /\ memos[p][i].date.t = "str"

\* L is the date of m, " - ", the first min(30, length) characters of the
\* content of m and "...", in this order and nothing else
IsLabelOf(L, m) ==
    LET d == Format(m.date)
        c == m.content.v
        n == IF Len(c) < TruncLen THEN Len(c) ELSE TruncLen
    IN  /\ Len(L) = Len(d) + 3 + n + 3
        /\ \A k \in 1..Len(d) : L[k] = d[k]
        /\ L[Len(d) + 1] = " " /\ L[Len(d) + 2] = "-" /\ L[Len(d) + 3] = " "
        /\ \A k \in 1..n : L[Len(d) + 3 + k] = c[k]
        /\ \A k \in 1..3 : L[Len(d) + 3 + n + k] = "."

\* The step taken last put get_memo_list(memos) of instance p into its list box
ShowsFullList(p) ==
    /\ last.who = p
    /\ \/ last.op = "Startup" /\ pc[p] = "loop"
       \/ last.op = "Add" /\ last.text # <<>>
       \/ last.op = "Search" /\ last.text = <<>>
       \/ last.op = "Edit" /\ last.sel # {}
       \/ last.op = "Delete" /\ last.sel # {} /\ last.yes
       \/ last.op = "Sort" /\ pc[p] = "loop"

\* C16: the list box filled from a list has one label per record, in the order
\* of the records, each made of the date, " - ", the first min(30, length)
\* characters of the content and "...", the marker also after a short
\* content; filling the list box leaves the list as it was.
C16_LabelsOfRecords ==
    \A p \in Procs :
       ShowsFullList(p) =>
           /\ Len(display[p]) = Len(memos[p])
           /\ \A i \in 1..Len(memos[p]) : IsLabelOf(display[p][i], memos[p][i])
           /\ last.op = "Search" => memos[p] = last.pre

\* A content of 31 characters is cut to 30, a content of one character is not
C16_Witness ==
    /\ last.op = "Search" /\ last.text = <<>>
    /\ memos[last.who] = <<MemoLong>>
    /\ display[last.who] =
          << <<"0", "0", " ", "-", " ">> \o SubSeq(LongContent, 1, 30) \o <<".", ".", ".">> >>
    /\ IsLabelOf(<<"0", "0", " ", "-", " ", "a", ".", ".", ".">>, MemoA)

\* C17: the list box never has more rows than the list has records, so every
\* row that can be selected, and the row an edit took, is a position of the
\* list.
C17_SelectionWithinList ==
    \A p \in Procs :
       /\ Len(display[p]) <= Len(memos[p])
       /\ \A sel \in Selections(p) : \A i \in sel : i \in Positions(memos[p])
       /\ (last.who = p /\ last.op = "Edit" /\ last.sel # {}) =>
             Min(last.sel) \in Positions(last.pre)

\* An edit that took the last row of a list of two records
C17_Witness ==
    /\ last.op = "Edit" /\ last.sel = {1}
    /\ Len(last.pre) = 2
    /\ Len(memos[last.who]) = 2
    /\ Len(display[last.who]) = 2

\* C18: an edit whose dialog was cancelled leaves every record as it was, and
\* still fills the list box with the labels of the whole list and writes the
\* list to the file.
C18_CancelledEditRewrites ==
    \A p \in Procs :
       (last.who = p /\ last.op = "Edit" /\ last.sel # {} /\ ~last.yes) =>
           /\ memos[p] = last.pre
           /\ display[p] = get_memo_list(memos[p])
           /\ last.out = "ok" => FileHolds(memos[p]) /\ pc[p] = "loop"
           /\ last.out # "ok" => pc[p] = "crashed"

\* A cancelled edit after a sort that was not yet saved: the file gets the new
\* order
C18_Witness ==
    /\ last.op = "Edit" /\ last.sel # {} /\ ~last.yes /\ last.out = "ok"
    /\ last.pre = <<MemoB, MemoA>>
    /\ memos[last.who] = <<MemoB, MemoA>>
    /\ Len(display[last.who]) = 2
    /\ FileHolds(<<MemoB, MemoA>>)

====
